---- MODULE Spec2Model ----
(***************************************************************************)
(* guessinggame_ttv: the round engine (game.py, class Game) running        *)
(* against the persistence store (database.py, class DatabaseManager).     *)
(*                                                                         *)
(* Strings that are matched by content (words, chat messages) are tuples   *)
(* of one-character strings, so that Python's `in` is a real substring     *)
(* test.  A meta row is an option: <<>> when the row is absent (get_meta   *)
(* raises MetaNotFoundException), <<v>> when it holds v.                   *)
(***************************************************************************)
EXTENDS Integers, Sequences, FiniteSets, TLC

(***************************************************************************)
(* Bounds of the model.                                                    *)
(***************************************************************************)
MaxWords == 2
MaxNames == 3
MaxScore == 6
MaxTokens == 6
MaxPool == 22
MaxCalls == 2
MaxRanked == 4
MaxRankScore == 5
MaxBatch == 2
MaxAmount == 2
MaxStoreScore == 1
MaxBoard == 7
MaxBoardScore == 2
MaxCategories == 2

(***************************************************************************)
(* Input pools.  A word never is the empty string (WordEntry of the data   *)
(* model); two names of the pool differ only in letter case.               *)
(***************************************************************************)
WordPool ==
    << << <<"c", "a", "t">>, "animal" >>,
       << <<"t", "e", "a">>, "drink" >>,
       << <<"o", "x">>, "animal" >>,
       << <<"a", "t">>, "word" >>,
       << <<"e", "m", "u">>, "animal" >> >>

NamePool == << "Bob", "bob", "ann", "Ann", "cy" >>

Messages ==
    { <<"c", "a", "t">>,
      <<"c", "a", "t", "e", "g", "o", "r", "y">>,
      <<"T", "e", "a">>,
      <<"t", "e", "a", " ", "o", "x">> }

WordEntries == { WordPool[i] : i \in 1..MaxWords }
Words == { e[1] : e \in WordEntries }
Names == { NamePool[i] : i \in 1..MaxNames }

(***************************************************************************)
(* A long word list, to take the remaining count across the point          *)
(* thresholds: the words w01, w02, ... in two categories.                  *)
(***************************************************************************)
DecDigits == << "0", "1", "2", "3", "4", "5", "6", "7", "8", "9" >>

PoolWord(i) == << "w", DecDigits[(i \div 10) + 1], DecDigits[(i % 10) + 1] >>

PoolCategory(i) == IF i % 2 = 0 THEN "even" ELSE "odd"

PoolEntries(n) == { << PoolWord(i), PoolCategory(i) >> : i \in 1..n }

\* the users of a scoreboard
RankPool == << "ann", "bob", "cy", "dee", "eve", "fay" >>

RankKeys == { RankPool[i] : i \in 1..MaxRanked }

\* a chat message that holds no word of the list
NoWordMessage == << "h", "i" >>

(***************************************************************************)
(* SQLite's COLLATE NOCASE on users.username: the key a name is stored     *)
(* and looked up under.                                                    *)
(***************************************************************************)
NoCase(name) ==
    CASE name = "Bob" -> "bob"
      [] name = "Ann" -> "ann"
      [] OTHER -> name

UserKeys == { NoCase(n) : n \in Names }

(***************************************************************************)
(* str() and eval()/int() of the values the engine keeps in the meta       *)
(* table.                                                                  *)
(***************************************************************************)
StrBool(b) == IF b THEN "True" ELSE "False"

EvalBool(s) ==
    CASE s = "True" -> TRUE
      [] s = "False" -> FALSE

Digits == << "0", "1", "2", "3" >>

StrInt(n) == Digits[n + 1]

IntStr(s) == CHOOSE n \in 0..3 : Digits[n + 1] = s

(***************************************************************************)
(* Python's `word in msg` on str: word occurs as a contiguous run of msg.  *)
(***************************************************************************)
IsSubstring(word, msg) ==
    \E i \in 0..(Len(msg) - Len(word)) : SubSeq(msg, i + 1, i + Len(word)) = word

\* the same text in lower case
FoldChar(c) ==
    CASE c = "T" -> "t"
      [] c = "C" -> "c"
      [] c = "O" -> "o"
      [] OTHER -> c

FoldCase(text) == [i \in DOMAIN text |-> FoldChar(text[i])]

(***************************************************************************)
(* The persistence store.                                                  *)
(***************************************************************************)
MetaKeys ==
    { "update_round", "round_end", "distribute_points",
      "cur_word", "cur_cat", "cur_points" }

NoMeta == [k \in MetaKeys |-> <<>>]

set_meta(m, name, data) == [m EXCEPT ![name] = <<data>>]

MetaFound(m, name) == m[name] # <<>>

get_meta(m, name) == m[name][1]

\* reset_round, as main.wordlist_from_file leaves a new database
reset_round(m) ==
    set_meta(set_meta(m, "update_round", StrBool(TRUE)), "round_end", StrBool(FALSE))

get_words(wl) == wl

get_remaining_word_count(wl) == Cardinality(wl)

\* COLLATE NOCASE on categories.name
CategoryNoCase(category) == IF category = "Animal" THEN "animal" ELSE category

\* DELETE FROM categories WHERE name = ?; wordlist.category_id is ON DELETE
\* RESTRICT, so with a word of the category stored the IntegrityError
\* (CategoryNotEmptyException) leaves the table as it was
RemoveCategoryRaises(wl, category) ==
    \E e \in wl : CategoryNoCase(e[2]) = CategoryNoCase(category)

remove_category(wl, cats, category) ==
    IF RemoveCategoryRaises(wl, category) THEN cats
    ELSE { c \in cats : CategoryNoCase(c) # CategoryNoCase(category) }

\* remove_word that deletes the word's whole category
remove_word_category(wl, cats, word) ==
    LET found == { e \in wl : FoldCase(e[1]) = FoldCase(word) }
    IN IF found = {}
       THEN [wordlist |-> wl, categories |-> cats,
             raised |-> "WordNotFoundException"]
       ELSE LET category == (CHOOSE e \in found : TRUE)[2]
            IN [wordlist |-> { e \in wl : CategoryNoCase(e[2]) #
                                             CategoryNoCase(category) },
                categories |-> remove_category({}, cats, category),
                raised |-> ""]

\* remove_word: get_category (WordNotFoundException when the word is not
\* stored; wordlist.word is COLLATE NOCASE), DELETE FROM wordlist WHERE
\* word = ?, and remove_category when no word of the category is left
remove_word(wl, cats, word) ==
    LET found == { e \in wl : FoldCase(e[1]) = FoldCase(word) }
    IN IF found = {}
       THEN [wordlist |-> wl, categories |-> cats,
             raised |-> "WordNotFoundException"]
       ELSE LET category == (CHOOSE e \in found : TRUE)[2]
                left == wl \ found
                num_words == Cardinality({ e \in left : CategoryNoCase(e[2]) =
                                                          CategoryNoCase(category) })
            IN [wordlist |-> left,
                categories |-> IF num_words = 0
                               THEN remove_category(left, cats, category)
                               ELSE cats,
                raised |-> ""]

UserExists(us, username) == NoCase(username) \in DOMAIN us

\* UPDATE users SET score = score + ? WHERE username = ?  (rowcount > 0)
add_score(us, username, amount) ==
    [us EXCEPT ![NoCase(username)].score = @ + amount]

\* add_user that drops the score it is given
add_user_scoreless(us, username, score, points) ==
    IF UserExists(us, username) THEN us
    ELSE [k \in DOMAIN us \cup {NoCase(username)} |->
             IF k = NoCase(username) THEN [score |-> 0, tokens |-> points]
             ELSE us[k]]

\* INSERT INTO users (username, score, tokens); the IntegrityError of a
\* stored name (UserExistsException) leaves the table as it was
add_user(us, username, score, points) ==
    IF UserExists(us, username) THEN us
    ELSE [k \in DOMAIN us \cup {NoCase(username)} |->
             IF k = NoCase(username) THEN [score |-> score, tokens |-> points]
             ELSE us[k]]

AddUserRaises(us, username) == UserExists(us, username)

\* reset_scores that resets nothing
reset_scores_none(us) == us

\* reset_scores that resets the winners only
reset_scores_winners(us) ==
    [k \in DOMAIN us |->
        IF \A j \in DOMAIN us : us[j].score <= us[k].score
        THEN [us[k] EXCEPT !.score = 0]
        ELSE us[k]]

\* UPDATE users SET score = 0
reset_scores(us) == [k \in DOMAIN us |-> [us[k] EXCEPT !.score = 0]]

get_tokens(us, username) ==
    IF UserExists(us, username) THEN us[NoCase(username)].tokens ELSE 0

\* add_tokens without the clamp at 0
add_tokens_unclamped(us, username, amount) ==
    IF ~UserExists(us, username) THEN us
    ELSE [us EXCEPT ![NoCase(username)].tokens = @ + amount]

\* add_tokens: the users table afterwards (UserNotFoundException leaves it as
\* it was; AddTokensRaises tells whether it is raised)
add_tokens(us, username, amount) ==
    IF ~UserExists(us, username) THEN us
    ELSE IF amount < 0 /\ get_tokens(us, username) + amount <= 0
         THEN [us EXCEPT ![NoCase(username)].tokens = 0]
         ELSE [us EXCEPT ![NoCase(username)].tokens = @ + amount]

AddTokensRaises(us, username, amount) ==
    /\ ~UserExists(us, username)
    /\ ~(amount < 0 /\ get_tokens(us, username) + amount <= 0)

\* UPDATE users SET tokens = ? WHERE username = ?, the amount clamped to 0
\* (UserNotFoundException, on rowcount 0, leaves the table as it was)
set_tokens(us, username, amount) ==
    IF ~UserExists(us, username) THEN us
    ELSE [us EXCEPT ![NoCase(username)].tokens = IF amount > 0 THEN amount ELSE 0]

SetTokensRaises(us, username, amount) == ~UserExists(us, username)

\* remove_tokens delegates to add_tokens with the amount negated
remove_tokens(us, username, amount) == add_tokens(us, username, 0 - amount)

RemoveTokensRaises(us, username, amount) == AddTokensRaises(us, username, 0 - amount)

\* migrate_user: SELECT the old row, SELECT the new row, DELETE the old row,
\* then UPDATE ... WHERE username = new, each in a transaction of its own
\* (UserNotFoundException, when a SELECT finds no row, leaves the table as
\* it was)
migrate_user(us, old_username, new_username) ==
    IF ~UserExists(us, old_username) \/ ~UserExists(us, new_username) THEN us
    ELSE LET old_data == us[NoCase(old_username)]
             deleted == [k \in DOMAIN us \ { NoCase(old_username) } |-> us[k]]
         IN [k \in DOMAIN deleted |->
               IF k = NoCase(new_username)
               THEN [score |-> deleted[k].score + old_data.score,
                     tokens |-> deleted[k].tokens + old_data.tokens]
               ELSE deleted[k]]

MigrateUserRaises(us, old_username, new_username) ==
    ~UserExists(us, old_username) \/ ~UserExists(us, new_username)

(***************************************************************************)
(* add_words.  executemany inserts the rows one at a time, in order, and   *)
(* stops at the first word that the UNIQUE COLLATE NOCASE column already   *)
(* holds; the rows before it, and a category created for the batch, stay   *)
(* in the connection's transaction.  WordExistsException is raised inside  *)
(* the sqlite_transaction block and is not an sqlite3.Error, so the block  *)
(* neither rolls back nor commits: the transaction stays open.             *)
(***************************************************************************)
RECURSIVE executemany(_, _, _, _)
executemany(wl, words, category, i) ==
    IF i > Len(words) THEN [wordlist |-> wl, raised |-> FALSE]
    ELSE IF \E e \in wl : FoldCase(e[1]) = FoldCase(words[i])
         THEN [wordlist |-> wl, raised |-> TRUE]
         ELSE executemany(wl \cup { <<words[i], category>> }, words, category, i + 1)

\* what the connection holds after add_words, the exception it raised and
\* whether it left its transaction open
add_words(wl, cats, words, category) ==
    LET found == { c \in cats : CategoryNoCase(c) = CategoryNoCase(category) }
        cat_id == IF found = {} THEN category ELSE CHOOSE c \in found : TRUE
        inserted == executemany(wl, words, cat_id, 1)
    IN [wordlist |-> inserted.wordlist,
        categories |-> cats \cup {cat_id},
        raised |-> IF inserted.raised THEN "WordExistsException" ELSE "",
        open |-> inserted.raised]

(***************************************************************************)
(* set_wordlist.  The mapping is a dict: a sequence of <<category, words>>  *)
(* with different keys.  Inside one transaction it deletes every word and  *)
(* category, inserts the categories in order (categories.name is UNIQUE    *)
(* COLLATE NOCASE) and then each category's words with executemany.  An    *)
(* IntegrityError leaves the transaction block, which rolls back, and is   *)
(* turned into WordExistsException outside it.                             *)
(***************************************************************************)
RECURSIVE insert_categories(_, _, _)
insert_categories(cats, mapping, i) ==
    IF i > Len(mapping) THEN [categories |-> cats, raised |-> FALSE]
    ELSE IF \E c \in cats : CategoryNoCase(c) = CategoryNoCase(mapping[i][1])
         THEN [categories |-> cats, raised |-> TRUE]
         ELSE insert_categories(cats \cup { mapping[i][1] }, mapping, i + 1)

RECURSIVE insert_wordlists(_, _, _)
insert_wordlists(wl, mapping, i) ==
    IF i > Len(mapping) THEN [wordlist |-> wl, raised |-> FALSE]
    ELSE LET inserted == executemany(wl, mapping[i][2], mapping[i][1], 1)
         IN IF inserted.raised THEN inserted
            ELSE insert_wordlists(inserted.wordlist, mapping, i + 1)

\* set_wordlist that keeps what it wrote before the duplicate
set_wordlist_partial(wl, cats, mapping) ==
    LET new_cats == insert_categories({}, mapping, 1)
        new_words == insert_wordlists({}, mapping, 1)
    IN IF new_cats.raised
       THEN [wordlist |-> {}, categories |-> new_cats.categories,
             raised |-> "WordExistsException"]
       ELSE [wordlist |-> new_words.wordlist, categories |-> new_cats.categories,
             raised |-> IF new_words.raised THEN "WordExistsException" ELSE ""]

\* the words and categories after set_wordlist, and the exception it raised
set_wordlist(wl, cats, mapping) ==
    LET new_cats == insert_categories({}, mapping, 1)
        new_words == insert_wordlists({}, mapping, 1)
    IN IF new_cats.raised \/ new_words.raised
       THEN [wordlist |-> wl, categories |-> cats, raised |-> "WordExistsException"]
       ELSE [wordlist |-> new_words.wordlist, categories |-> new_cats.categories,
             raised |-> ""]

(***************************************************************************)
(* get_highscores.  The first query takes the scores of the three highest  *)
(* rows (not the three highest distinct scores), padded with 0; the second *)
(* returns the users holding one of them with score > 0, ORDER BY score    *)
(* DESC LIMIT 6.  The order among equal scores is not fixed by the query,  *)
(* so every order is a possible result.                                    *)
(***************************************************************************)
HighscoreLimit == 6

highest_scores(us) ==
    { us[k].score : k \in { j \in DOMAIN us :
          Cardinality({ h \in DOMAIN us : us[h].score > us[j].score }) < 3 } }
    \cup (IF Cardinality(DOMAIN us) < 3 THEN {0} ELSE {})

\* the second query without its `score > 0`
Scorers_any(us) == { k \in DOMAIN us : us[k].score \in highest_scores(us) }

Scorers(us) ==
    { k \in DOMAIN us : us[k].score \in highest_scores(us) /\ us[k].score > 0 }

Min(a, b) == IF a < b THEN a ELSE b

\* rows taken in any order
RECURSIVE ranked_unordered(_, _, _)
ranked_unordered(us, q, n) ==
    IF n = 0 THEN { <<>> }
    ELSE UNION { { << <<k, us[k].score>> >> \o r : r \in ranked_unordered(us, q \ {k}, n - 1) } :
                 k \in q }

\* ORDER BY score DESC LIMIT n over the rows q: each next row holds the
\* highest score among the rows not yet taken
RECURSIVE ranked(_, _, _)
ranked(us, q, n) ==
    IF n = 0 THEN { <<>> }
    ELSE UNION { { << <<k, us[k].score>> >> \o r : r \in ranked(us, q \ {k}, n - 1) } :
                 k \in { j \in q : \A h \in q : us[h].score <= us[j].score } }

get_highscores(us) ==
    LET q == Scorers(us)
    IN ranked(us, q, Min(HighscoreLimit, Cardinality(q)))

(***************************************************************************)
(* The round engine: pure parts of class Game.                             *)
(***************************************************************************)
HighThreshold == 20
LowThreshold == 11

\* update_point_value with the upper threshold taken inclusively
update_point_value_inclusive(wl) ==
    LET num_words == get_remaining_word_count(wl)
    IN IF num_words >= HighThreshold THEN 1
       ELSE IF LowThreshold <= num_words /\ num_words <= HighThreshold THEN 2
       ELSE 3

\* update_point_value with the values of the tiers exchanged
update_point_value_reversed(wl) ==
    LET num_words == get_remaining_word_count(wl)
    IN IF num_words > HighThreshold THEN 3
       ELSE IF LowThreshold <= num_words /\ num_words <= HighThreshold THEN 2
       ELSE 1

\* update_point_value: the point value for the store's remaining word count
update_point_value(wl) ==
    LET num_words == get_remaining_word_count(wl)
    IN IF num_words > HighThreshold THEN 1
       ELSE IF LowThreshold <= num_words /\ num_words <= HighThreshold THEN 2
       ELSE 3

\* choose_new_word that leaves the chosen word in the store
choose_new_word_without_remove(word, category, wl, cats) ==
    IF get_words(wl) = {}
    THEN { [chose |-> FALSE, word |-> word, category |-> category,
            wordlist |-> wl, categories |-> cats] }
    ELSE { [chose |-> TRUE, word |-> e[1], category |-> e[2],
            wordlist |-> wl, categories |-> cats] : e \in get_words(wl) }

\* choose_new_word that forgets the word in play when the store is empty
choose_new_word_clears(word, category, wl, cats) ==
    IF get_words(wl) = {}
    THEN { [chose |-> FALSE, word |-> <<>>, category |-> "",
            wordlist |-> wl, categories |-> cats] }
    ELSE { [chose |-> TRUE, word |-> e[1], category |-> e[2],
            wordlist |-> remove_word(wl, cats, e[1]).wordlist,
            categories |-> remove_word(wl, cats, e[1]).categories] :
             e \in get_words(wl) }

\* choose_new_word: every outcome random.choice allows; the chosen word
\* is removed from the store, with its category when that is left empty
choose_new_word(word, category, wl, cats) ==
    IF get_words(wl) = {}
    THEN { [chose |-> FALSE, word |-> word, category |-> category,
            wordlist |-> wl, categories |-> cats] }
    ELSE { [chose |-> TRUE, word |-> e[1], category |-> e[2],
            wordlist |-> remove_word(wl, cats, e[1]).wordlist,
            categories |-> remove_word(wl, cats, e[1]).categories] :
             e \in get_words(wl) }

\* process: the named tuple it returns (None is <<>>, a value v is <<v>>)
ProcessData(success, word, score, words_remaining) ==
    [success |-> success, word |-> word, score |-> score,
     words_remaining |-> words_remaining]

\* remaining_words without the correction
remaining_words_uncorrected(wl) == get_remaining_word_count(wl)

\* process: the store's count corrected for the word in play
remaining_words(wl) == get_remaining_word_count(wl) + 1

\* a match that wants the word as a token of its own, between spaces
word_in_message_tokens(word, msg) ==
    \E i \in 0..(Len(msg) - Len(word)) :
        /\ SubSeq(msg, i + 1, i + Len(word)) = word
        /\ (i = 0 \/ msg[i] = " ")
        /\ (i + Len(word) = Len(msg) \/ msg[i + Len(word) + 1] = " ")

\* a match that ignores letter case
word_in_message_nocase(word, msg) == IsSubstring(FoldCase(word), FoldCase(msg))

\* process: `self._current_word in msg`
word_in_message(word, msg) == IsSubstring(word, msg)

\* ret_data that reports the count including the word just guessed
ret_data_with_current(cur_word, cur_pv, remaining) ==
    ProcessData(TRUE, <<cur_word>>, <<cur_pv>>, remaining)

\* process: what a winning call returns
ret_data(cur_word, cur_pv, remaining) ==
    ProcessData(TRUE, <<cur_word>>, <<cur_pv>>, remaining - 1)

\* _load_previous_data that does not read cur_points
load_previous_data_without_points(m) ==
    IF MetaFound(m, "cur_word") /\ MetaFound(m, "cur_cat") /\ MetaFound(m, "cur_points")
    THEN [loaded |-> get_meta(m, "cur_word") # <<>>,
          word |-> get_meta(m, "cur_word"),
          category |-> get_meta(m, "cur_cat"),
          point_value |-> 0]
    ELSE [loaded |-> FALSE, word |-> <<>>, category |-> "", point_value |-> 0]

\* _load_previous_data on a newly constructed engine
load_previous_data(m) ==
    IF MetaFound(m, "cur_word") /\ MetaFound(m, "cur_cat") /\ MetaFound(m, "cur_points")
    THEN [loaded |-> get_meta(m, "cur_word") # <<>>,
          word |-> get_meta(m, "cur_word"),
          category |-> get_meta(m, "cur_cat"),
          point_value |-> IntStr(get_meta(m, "cur_points"))]
    ELSE [loaded |-> FALSE, word |-> <<>>, category |-> "", point_value |-> 0]

\* a flag read that never finds the row
FlagOr_unread(m, name, default) == default

\* a flag read that takes a missing row for True
FlagOr_absent_true(m, name, default) ==
    IF MetaFound(m, name) THEN EvalBool(get_meta(m, name)) ELSE TRUE

\* a flag read that never finds update_round
FlagOr_without_update(m, name, default) ==
    IF MetaFound(m, name) /\ name # "update_round"
    THEN EvalBool(get_meta(m, name)) ELSE default

\* Game.__init__: eval(get_meta(name)), default on MetaNotFoundException
FlagOr(m, name, default) ==
    IF MetaFound(m, name) THEN EvalBool(get_meta(m, name)) ELSE default

FirstPlaceTokens == 3
SecondPlaceTokens == 2
ThirdPlaceTokens == 1

\* _distribute_points: the tokens paid to the i-th user of the ranking
Payout(hs, i) ==
    LET high == hs[1][2]
        low == hs[Len(hs)][2]
    IN IF hs[i][2] = high THEN FirstPlaceTokens
       ELSE IF hs[i][2] > low THEN SecondPlaceTokens
       ELSE ThirdPlaceTokens

\* _distribute_points, cut after its first n add_tokens calls
RECURSIVE distribute_points(_, _, _)
distribute_points(us, hs, n) ==
    IF n = 0 THEN us
    ELSE add_tokens(distribute_points(us, hs, n - 1), hs[n][1], Payout(hs, n))

\* end_round without the write of distribute_points
EndRoundMeta_keeps_flag ==
    << <<"round_end", StrBool(TRUE)>>,
       <<"cur_word", <<>> >>,
       <<"cur_cat", "">>,
       <<"cur_points", "0">>,
       <<"cur_points", "0">> >>

\* end_round's set_meta calls, in order
EndRoundMeta ==
    << <<"round_end", StrBool(TRUE)>>,
       <<"distribute_points", StrBool(FALSE)>>,
       <<"cur_word", <<>> >>,
       <<"cur_cat", "">>,
       <<"cur_points", "0">> >>

RECURSIVE set_metas(_, _, _)
set_metas(m, writes, n) ==
    IF n = 0 THEN m
    ELSE set_meta(set_metas(m, writes, n - 1), writes[n][1], writes[n][2])

\* end_round writes the store Len(hs) + 1 + Len(EndRoundMeta) times, each write
\* a transaction of its own; the store after the first k of them
EndRoundWrites(hs) == Len(hs) + 1 + Len(EndRoundMeta)

end_round_users(us, hs, k) ==
    IF k > Len(hs) THEN reset_scores(distribute_points(us, hs, Len(hs)))
    ELSE distribute_points(us, hs, k)

end_round_meta(m, hs, k) ==
    IF k > Len(hs) + 1 THEN set_metas(m, EndRoundMeta, k - Len(hs) - 1)
    ELSE m

(***************************************************************************)
(* State.  The store: wordlist, users, meta.  The engine object, while one *)
(* is constructed: current_word, current_category, current_point_value,    *)
(* running.  The other variables record history and change nothing:        *)
(*   last       the last operation and, for process, what it returned      *)
(*   saved      the Round a teardown of a running engine saved, while the  *)
(*              store has not been written since                           *)
(*   stopped    the Round in play when the process stopped, while the      *)
(*              store has not been written since                           *)
(*   paid       the users end_round gave tokens since scores were last     *)
(*              reset                                                      *)
(*   paid_again the users end_round gave tokens twice for the same scores  *)
(*   wins       per word, how many process calls were credited for it      *)
(*              (2 stands for two or more)                                 *)
(*   calls      the engine calls made on the long word list                *)
(* The categories table is categories.  open_tx is <<>>, or holds the      *)
(* committed word list and categories while the connection is inside a     *)
(* transaction that was neither committed nor rolled back.                 *)
(***************************************************************************)
VARIABLES wordlist, users, meta,
          constructed, current_word, current_category, current_point_value, running,
          last, saved, stopped, paid, paid_again, wins, calls,
          categories, open_tx, handlers

\* the message handlers of the bot that are in flight
MaxHandlers == 2
Handlers == 1..MaxHandlers
NoHandler == [pc |-> "idle", success |-> FALSE, words_remaining |-> 0,
              ended |-> FALSE, raised |-> ""]
NoHandlers == [h \in Handlers |-> NoHandler]

store == <<wordlist, users, meta>>
round == <<current_word, current_category, current_point_value, running>>
vars == <<wordlist, users, meta,
          constructed, current_word, current_category, current_point_value, running,
          last, saved, stopped, paid, paid_again, wins, calls,
          categories, open_tx, handlers>>

\* the categories table and the state of the connection
conn == <<categories, open_tx>>

NoUsers == [k \in {} |-> [score |-> 0, tokens |-> 0]]

Round(word, category, point_value) ==
    [word |-> word, category |-> category, point_value |-> point_value]

NoCall ==
    [op |-> "none", user |-> "", msg |-> <<>>,
     ret |-> ProcessData(FALSE, <<>>, <<>>, 0), highscores |-> <<>>,
     chose |-> FALSE, amount |-> 0, raised |-> "", words |-> <<>>,
     mapping |-> <<>>]

Call(op) == [NoCall EXCEPT !.op = op]

Init ==
    /\ wordlist \in SUBSET WordEntries
    /\ users = NoUsers
    /\ meta \in { NoMeta, reset_round(NoMeta) }
    /\ constructed = FALSE
    /\ current_word = <<>>
    /\ current_category = ""
    /\ current_point_value = 0
    /\ running = FALSE
    /\ last = NoCall
    /\ saved = <<>>
    /\ stopped = <<>>
    /\ paid = {}
    /\ paid_again = {}
    /\ wins = [w \in Words |-> 0]
    /\ calls = 0
    /\ categories \in { cats \in SUBSET { e[2] : e \in WordEntries } :
                          { e[2] : e \in wordlist } \subseteq cats }
    /\ open_tx = <<>>
    /\ handlers = NoHandlers

(***************************************************************************)
(* end_round's first k store writes on the ranking hs (all of them when    *)
(* k = EndRoundWrites(hs)).  Token balances stay within MaxTokens.         *)
(***************************************************************************)
EndRoundStore(hs, k) ==
    LET payees == { hs[i][1] : i \in 1..Min(k, Len(hs)) }
    IN /\ \A i \in 1..Len(hs) : users[hs[i][1]].tokens + Payout(hs, i) <= MaxTokens
       /\ users' = end_round_users(users, hs, k)
       /\ meta' = end_round_meta(meta, hs, k)
       /\ paid_again' = paid_again \cup (payees \cap paid)
       /\ paid' = IF k > Len(hs) THEN {} ELSE paid \cup payees

(***************************************************************************)
(* Game.__init__                                                           *)
(***************************************************************************)
Startup ==
    /\ ~constructed
    /\ open_tx = <<>>
    /\ constructed' = TRUE
    /\ LET update_round == FlagOr(meta, "update_round", FALSE)
           round_ended == FlagOr(meta, "round_end", FALSE)
           distribute == FlagOr(meta, "distribute_points", FALSE)
           loaded_data == load_previous_data(meta)
       IN IF round_ended
          THEN /\ running' = FALSE
               /\ current_word' = <<>>
               /\ current_category' = ""
               /\ current_point_value' = 0
               /\ wordlist' = wordlist
               /\ categories' = categories
               /\ IF distribute
                  THEN \E hs \in get_highscores(users) :
                          EndRoundStore(hs, EndRoundWrites(hs))
                  ELSE UNCHANGED <<users, meta, paid, paid_again>>
          ELSE /\ UNCHANGED <<users, meta, paid, paid_again>>
               /\ IF loaded_data.loaded /\ update_round
                  THEN /\ current_word' = loaded_data.word
                       /\ current_category' = loaded_data.category
                       /\ current_point_value' = update_point_value(wordlist)
                       /\ wordlist' = wordlist
                       /\ categories' = categories
                       /\ running' = TRUE
                  ELSE \E chosen \in choose_new_word(loaded_data.word,
                                                     loaded_data.category,
                                                     wordlist, categories) :
                          /\ current_word' = chosen.word
                          /\ current_category' = chosen.category
                          /\ wordlist' = chosen.wordlist
                          /\ categories' = chosen.categories
                          /\ current_point_value' =
                                IF chosen.chose THEN update_point_value(chosen.wordlist)
                                ELSE loaded_data.point_value
                          /\ running' = (loaded_data.loaded \/ chosen.chose)
    /\ last' = Call("startup")
    /\ saved' = <<>>
    /\ stopped' = <<>>
    /\ UNCHANGED <<wins, calls, open_tx>>
    /\ UNCHANGED handlers

(***************************************************************************)
(* Game.process                                                            *)
(***************************************************************************)
process(username, msg) ==
    /\ constructed
    /\ IF ~word_in_message(current_word, msg)
       THEN /\ last' = [Call("process") EXCEPT
                           !.user = username, !.msg = msg,
                           !.ret = ProcessData(FALSE, <<>>, <<>>,
                                               remaining_words(wordlist))]
            /\ UNCHANGED <<store, categories, round, saved, wins>>
       ELSE LET cur_word == current_word
                cur_pv == current_point_value
                scored == IF UserExists(users, username)
                          THEN add_score(users, username, cur_pv)
                          ELSE add_user(users, username, cur_pv, 0)
            IN /\ scored[NoCase(username)].score <= MaxScore
               /\ users' = scored
               /\ last' = [Call("process") EXCEPT
                              !.user = username, !.msg = msg,
                              !.ret = ret_data(cur_word, cur_pv,
                                               remaining_words(wordlist))]
               /\ IF remaining_words(wordlist) - 1 = 0
                  THEN UNCHANGED <<wordlist, categories, current_word,
                                   current_category, current_point_value>>
                  ELSE \E chosen \in choose_new_word(current_word,
                                                     current_category,
                                                     wordlist, categories) :
                          /\ current_word' = chosen.word
                          /\ current_category' = chosen.category
                          /\ wordlist' = chosen.wordlist
                          /\ categories' = chosen.categories
                          /\ current_point_value' = update_point_value(chosen.wordlist)
               /\ saved' = <<>>
               /\ wins' = IF cur_word \in Words
                          THEN [wins EXCEPT ![cur_word] = Min(2, @ + 1)]
                          ELSE wins
               /\ UNCHANGED <<meta, running>>
    /\ UNCHANGED <<constructed, stopped, paid, paid_again, open_tx>>

Process(username, msg) ==
    /\ process(username, msg)
    /\ UNCHANGED calls
    /\ UNCHANGED handlers

(***************************************************************************)
(* Game.end_round                                                          *)
(***************************************************************************)
end_round ==
    /\ constructed
    /\ \E hs \in get_highscores(users) :
          /\ EndRoundStore(hs, EndRoundWrites(hs))
          /\ last' = [Call("end_round") EXCEPT !.highscores = hs]
    /\ running' = FALSE
    /\ saved' = <<>>
    /\ UNCHANGED <<wordlist, constructed, current_word, current_category,
                   current_point_value, stopped, wins, conn>>

EndRound ==
    /\ end_round
    /\ UNCHANGED <<calls, handlers>>

\* the writes of a running engine's teardown
TeardownRunningMeta(word, category, points) ==
    << <<"cur_word", word>>,
       <<"cur_cat", category>>,
       <<"cur_points", StrInt(points)>>,
       <<"round_end", StrBool(FALSE)>>,
       <<"distribute_points", StrBool(FALSE)>>,
       <<"update_round", StrBool(FALSE)>> >>

\* the writes of a teardown when no round is running
TeardownEndedMeta ==
    << <<"round_end", StrBool(TRUE)>>,
       <<"distribute_points", StrBool(FALSE)>>,
       <<"update_round", StrBool(FALSE)>> >>

\* a teardown that saves the word and the category but not the point value
teardown_meta_without_points(m, run, word, category, points) ==
    IF ~run
    THEN set_metas(m, TeardownEndedMeta, Len(TeardownEndedMeta))
    ELSE set_metas(m, << <<"cur_word", word>>, <<"cur_cat", category>>,
                         <<"round_end", StrBool(FALSE)>>,
                         <<"distribute_points", StrBool(FALSE)>>,
                         <<"update_round", StrBool(FALSE)>> >>, 5)

\* a teardown that saves the engine's Round whether or not it is running
teardown_meta_always_saves(m, run, word, category, points) ==
    IF ~run
    THEN set_metas(set_metas(m, TeardownRunningMeta(word, category, points), 6),
                   TeardownEndedMeta, Len(TeardownEndedMeta))
    ELSE set_metas(m, TeardownRunningMeta(word, category, points), 6)

\* Game.teardown's metadata writes
teardown_meta(m, run, word, category, points) ==
    IF ~run
    THEN set_metas(m, TeardownEndedMeta, Len(TeardownEndedMeta))
    ELSE set_metas(m, TeardownRunningMeta(word, category, points), 6)

(***************************************************************************)
(* Game.teardown                                                           *)
(***************************************************************************)
Teardown ==
    /\ constructed
    /\ meta' = teardown_meta(meta, running, current_word, current_category,
                             current_point_value)
    /\ saved' = IF ~running
                THEN <<>>
                ELSE << Round(current_word, current_category, current_point_value) >>
    /\ last' = Call("teardown")
    /\ UNCHANGED <<wordlist, users, constructed, round, stopped, paid, paid_again,
                   wins, calls, conn>>
    /\ UNCHANGED handlers

(***************************************************************************)
(* The process ends (the bot exits or is killed): the engine object is     *)
(* gone, the store stays.                                                  *)
(***************************************************************************)
EngineGone ==
    /\ constructed' = FALSE
    /\ current_word' = <<>>
    /\ current_category' = ""
    /\ current_point_value' = 0
    /\ running' = FALSE

Stop ==
    /\ constructed
    /\ EngineGone
    /\ stopped' = IF running
                  THEN << Round(current_word, current_category, current_point_value) >>
                  ELSE <<>>
    /\ last' = Call("stop")
    /\ UNCHANGED <<store, saved, paid, paid_again, wins, calls, conn>>
    /\ UNCHANGED handlers

\* the process is killed inside end_round, after k of its store writes
EndRoundCrash ==
    /\ constructed
    /\ \E hs \in get_highscores(users) :
          \E k \in 1..(EndRoundWrites(hs) - 1) : EndRoundStore(hs, k)
    /\ EngineGone
    /\ last' = Call("crash")
    /\ saved' = <<>>
    /\ stopped' = <<>>
    /\ UNCHANGED <<wordlist, wins, calls, conn>>
    /\ UNCHANGED handlers

\* the process is killed inside the end_round that Game.__init__ calls
StartupCrash ==
    /\ ~constructed
    /\ FlagOr(meta, "round_end", FALSE)
    /\ FlagOr(meta, "distribute_points", FALSE)
    /\ \E hs \in get_highscores(users) :
          \E k \in 1..(EndRoundWrites(hs) - 1) : EndRoundStore(hs, k)
    /\ last' = Call("crash")
    /\ saved' = <<>>
    /\ stopped' = <<>>
    /\ UNCHANGED <<wordlist, constructed, round, wins, calls, conn>>
    /\ UNCHANGED handlers

(***************************************************************************)
(* Interface.wipe_wordlist (the console, while the bot is not running)     *)
(***************************************************************************)
WipeWordlist ==
    /\ ~constructed
    /\ open_tx = <<>>
    /\ get_words(wordlist) # {}
    /\ wordlist' = {}
    /\ categories' = {}
    /\ meta' = set_meta(set_meta(meta, "round_end", "True"), "distribute_points", "True")
    /\ last' = Call("wipe_wordlist")
    /\ saved' = <<>>
    /\ stopped' = <<>>
    /\ UNCHANGED <<users, constructed, round, paid, paid_again, wins, calls, open_tx>>
    /\ UNCHANGED handlers

\* the engine's operations run to completion; the process may end between them
Next ==
    \/ Startup
    \/ \E username \in Names, msg \in Messages : Process(username, msg)
    \/ EndRound
    \/ Teardown
    \/ Stop
    \/ WipeWordlist

Spec == Init /\ [][Next]_vars

\* the process may also be killed between two store writes of end_round
NextCrash ==
    \/ Next
    \/ EndRoundCrash
    \/ StartupCrash

SpecCrash == Init /\ [][NextCrash]_vars

(***************************************************************************)
(* The engine on a long word list.  Game.choose_new_word and               *)
(* Game.update_point_value are public methods; here they are also called   *)
(* on their own.  At most MaxCalls calls follow the construction.          *)
(***************************************************************************)
InitPool ==
    /\ wordlist \in { PoolEntries(n) : n \in 0..MaxPool }
    /\ users = NoUsers
    /\ meta = NoMeta
    /\ constructed = FALSE
    /\ current_word = <<>>
    /\ current_category = ""
    /\ current_point_value = 0
    /\ running = FALSE
    /\ last = NoCall
    /\ saved = <<>>
    /\ stopped = <<>>
    /\ paid = {}
    /\ paid_again = {}
    /\ wins = [w \in Words |-> 0]
    /\ calls = 0
    /\ categories = { e[2] : e \in wordlist }
    /\ open_tx = <<>>
    /\ handlers = NoHandlers

\* Game.process of a message that is the word in play, or holds no word
PoolProcess ==
    /\ calls < MaxCalls
    /\ \E msg \in { current_word, NoWordMessage } : process(NamePool[1], msg)
    /\ calls' = calls + 1
    /\ UNCHANGED handlers

\* Game.choose_new_word
ChooseNewWord ==
    /\ constructed
    /\ calls < MaxCalls
    /\ \E chosen \in choose_new_word(current_word, current_category,
                                       wordlist, categories) :
          /\ current_word' = chosen.word
          /\ current_category' = chosen.category
          /\ wordlist' = chosen.wordlist
          /\ categories' = chosen.categories
          /\ last' = [Call("choose_new_word") EXCEPT !.chose = chosen.chose]
          /\ saved' = IF chosen.chose THEN <<>> ELSE saved
    /\ calls' = calls + 1
    /\ UNCHANGED <<users, meta, constructed, current_point_value, running,
                   stopped, paid, paid_again, wins, open_tx>>
    /\ UNCHANGED handlers

\* Game.update_point_value
UpdatePointValue ==
    /\ constructed
    /\ calls < MaxCalls
    /\ current_point_value' = update_point_value(wordlist)
    /\ last' = Call("update_point_value")
    /\ calls' = calls + 1
    /\ UNCHANGED <<store, constructed, current_word, current_category, running,
                   saved, stopped, paid, paid_again, wins, conn>>
    /\ UNCHANGED handlers

NextPool ==
    \/ Startup
    \/ PoolProcess
    \/ ChooseNewWord
    \/ UpdatePointValue

SpecPool == InitPool /\ [][NextPool]_vars

(***************************************************************************)
(* The end of a round on a scoreboard: the users table holds MaxRanked     *)
(* users with any scores up to MaxRankScore, as earlier play on a larger   *)
(* word list leaves it; one word is left to play.                          *)
(***************************************************************************)
InitRanking ==
    /\ wordlist = { WordPool[1] }
    /\ users \in [RankKeys -> [score : 0..MaxRankScore, tokens : {0}]]
    /\ meta = NoMeta
    /\ constructed = FALSE
    /\ current_word = <<>>
    /\ current_category = ""
    /\ current_point_value = 0
    /\ running = FALSE
    /\ last = NoCall
    /\ saved = <<>>
    /\ stopped = <<>>
    /\ paid = {}
    /\ paid_again = {}
    /\ wins = [w \in Words |-> 0]
    /\ calls = 0
    /\ categories = { e[2] : e \in wordlist }
    /\ open_tx = <<>>
    /\ handlers = NoHandlers

NextRanking ==
    \/ Startup
    \/ EndRound
    \/ Teardown
    \/ Stop
    \/ WipeWordlist

SpecRanking == InitRanking /\ [][NextRanking]_vars

(***************************************************************************)
(* Claims.                                                                 *)
(***************************************************************************)

\* C1: teardown() on a running engine followed by the construction of a fresh
\* engine on the same store (no write in between) gives an engine that is
\* running with the current_word, current_category and point_value of the
\* engine that was torn down, for every store content.
C1_TeardownRoundTrip ==
    [][(last'.op = "startup" /\ saved # <<>>)
          => /\ running'
             /\ Round(current_word', current_category', current_point_value')
                   = saved[1]]_vars

\* C2: no round is paid out twice: wherever the process stops, also inside
\* end_round, and restarts on the same store, end_round never gives a user
\* tokens a second time for scores it has paid already.
C2_NoDoublePayout == paid_again = {}

\* C3: when the process stops while the round is running, with or without
\* teardown, the word in play is the current word of the next engine
\* constructed on the same store.
C3_ActiveWordSurvives ==
    [][(last'.op = "startup" /\ stopped # <<>>)
          => current_word' = stopped[1].word]_vars

\* C4: whenever running is true, current_word is not empty and is not a word
\* of the store's word list.
C4_RunningWordConsumed ==
    running => /\ current_word # <<>>
               /\ \A e \in wordlist : e[1] # current_word

\* C5: while running is false a process call credits no score, creates no
\* user, removes no word and leaves the Round as it is; it does not succeed.
C5_NoProcessingWhenStopped ==
    [][(last'.op = "process" /\ ~running)
          => /\ ~last'.ret.success
             /\ UNCHANGED <<users, wordlist, round>>]_vars

\* C6: a word put in play is won at most once: after a process call has been
\* credited for a word, no later process call is credited for that word.
C6_WonAtMostOnce == \A w \in Words : wins[w] <= 1

\* C7: a process call whose message does not contain current_word returns
\* (False, None, None, remaining count + 1) and changes neither the users, the
\* word list, the metadata nor the Round.
C7_LosingProcessChangesNothing ==
    [][(last'.op = "process" /\ ~IsSubstring(current_word, last'.msg))
          => /\ last'.ret = ProcessData(FALSE, <<>>, <<>>, Cardinality(wordlist) + 1)
             /\ UNCHANGED <<users, wordlist, meta, round>>]_vars

\* a losing message has been processed by a running engine with words left
C7_Witness ==
    /\ last.op = "process"
    /\ ~last.ret.success
    /\ running
    /\ current_word # <<>>
    /\ ~IsSubstring(current_word, last.msg)
    /\ last.ret.words_remaining >= 2

\* C8: a process call whose message contains current_word adds the point value
\* in force at the start of the call to the guesser's score, creating the
\* account with that score and 0 tokens when there is none; no other user's
\* score and nobody's tokens change.
C8_WinCreditsGuesser ==
    [][(last'.op = "process" /\ IsSubstring(current_word, last'.msg))
          => LET guesser == NoCase(last'.user)
             IN /\ DOMAIN users' = DOMAIN users \cup {guesser}
                /\ users'[guesser] =
                      IF guesser \in DOMAIN users
                      THEN [score |-> users[guesser].score + current_point_value,
                            tokens |-> users[guesser].tokens]
                      ELSE [score |-> current_point_value, tokens |-> 0]
                /\ \A k \in DOMAIN users \ {guesser} : users'[k] = users[k]]_vars

\* a guess has been credited to a new account while another user holds
\* a score and tokens
C8_Witness ==
    /\ last.op = "process"
    /\ last.ret.success
    /\ last.ret.score = <<3>>
    /\ users[NoCase(last.user)] = [score |-> 3, tokens |-> 0]
    /\ \E k \in DOMAIN users : k # NoCase(last.user) /\ users[k].tokens > 0

\* C9: a winning process call returns success, the word and the point value
\* that were in force when it started, and the store's remaining count read
\* at its start, whatever word is selected next.
C9_WinPayload ==
    [][(last'.op = "process" /\ IsSubstring(current_word, last'.msg))
          => last'.ret = ProcessData(TRUE, <<current_word>>, <<current_point_value>>,
                                     Cardinality(wordlist))]_vars

\* a winning call has returned while the engine moved on to another word
C9_Witness ==
    /\ last.op = "process"
    /\ last.ret.success
    /\ last.ret.words_remaining >= 1
    /\ running
    /\ last.ret.word # <<current_word>>

\* C10: a winning process call on a running engine whose store has no word
\* left reports 0 words remaining, selects no word and leaves the Round as it
\* was, still running.
C10_LastWordKeepsRound ==
    [][(last'.op = "process" /\ IsSubstring(current_word, last'.msg)
          /\ running /\ wordlist = {})
          => /\ last'.ret.success
             /\ last'.ret.words_remaining = 0
             /\ UNCHANGED <<wordlist, round>>
             /\ running']_vars

\* the last word of a round has been guessed
C10_Witness ==
    /\ last.op = "process"
    /\ last.ret.success
    /\ last.ret.words_remaining = 0
    /\ running
    /\ last.ret.word = <<current_word>>
    /\ wordlist = {}

\* C11: after every successful process call that leaves words to guess, the
\* current word is another word, one that was in the store before the call and
\* is removed from it by the call, and point_value is the threshold value (1
\* above 20, 2 from 11 to 20, 3 up to 10) of the store's count after the removal.
C11_NextWordPrepared ==
    [][(last'.op = "process" /\ last'.ret.success /\ last'.ret.words_remaining > 0)
          => /\ current_word' # current_word
             /\ \E e \in wordlist : /\ e[1] = current_word'
                                    /\ wordlist' = wordlist \ {e}
             /\ \A e \in wordlist' : e[1] # current_word'
             /\ current_point_value' =
                   (LET n == Cardinality(wordlist')
                    IN IF n > 20 THEN 1 ELSE IF n >= 11 THEN 2 ELSE 3)]_vars

\* C12: matching is a case-sensitive substring test: a message equal to the
\* current word wins, a message holding the current word inside a longer
\* token wins, and a message holding it only in another letter case does not.
C12_CaseSensitiveSubstring ==
    [][(last'.op = "process")
          => LET w == current_word
                 m == last'.msg
                 n == Len(current_word)
                 At(i) == SubSeq(m, i, i + n - 1)
                 Starts == 1..(Len(m) - n + 1)
             IN /\ (m = w => last'.ret.success)
                /\ (\E i \in Starts :
                       /\ At(i) = w
                       /\ \/ (i > 1 /\ m[i - 1] # " ")
                          \/ (i + n - 1 < Len(m) /\ m[i + n] # " "))
                      => last'.ret.success
                /\ ((\E i \in Starts : FoldCase(At(i)) = FoldCase(w))
                       /\ (\A i \in Starts : At(i) # w))
                      => ~last'.ret.success]_vars

\* the word in play was guessed inside a longer token
C12_Witness ==
    /\ last.op = "process"
    /\ last.ret.success
    /\ last.ret.word = << <<"c", "a", "t">> >>
    /\ last.msg = <<"c", "a", "t", "e", "g", "o", "r", "y">>
    /\ last.ret.score = <<3>>

\* C13: the engine's match test is case-insensitive and whole-word: a message
\* wins exactly when the current word is one of its space-separated words in
\* any letter case; a current word that is only part of a longer word of the
\* message does not win.
C13_WholeWordAnyCase ==
    [][(last'.op = "process" /\ current_word # <<>>)
          => LET w == current_word
                 m == last'.msg
                 n == Len(current_word)
             IN last'.ret.success <=>
                  \E i \in 1..(Len(m) - n + 1) :
                     /\ FoldCase(SubSeq(m, i, i + n - 1)) = FoldCase(w)
                     /\ (i = 1 \/ m[i - 1] = " ")
                     /\ (i + n - 1 = Len(m) \/ m[i + n] = " ")]_vars

\* C14: on a non-empty word store choose_new_word returns true and makes a
\* (word, category) pair of the store the current one; afterwards the store
\* holds that word no more, has one word fewer and is otherwise the same.
C14_ChooseFromStore ==
    [][(last'.op = "choose_new_word" /\ wordlist # {})
          => /\ last'.chose
             /\ << current_word', current_category' >> \in wordlist
             /\ \A e \in wordlist' : e[1] # current_word'
             /\ Cardinality(wordlist') = Cardinality(wordlist) - 1
             /\ wordlist' \subseteq wordlist]_vars

\* choose_new_word has replaced the word in play by a word of another
\* category, and words of both categories are left
C14_Witness ==
    /\ last.op = "choose_new_word"
    /\ last.chose
    /\ running
    /\ \E e \in wordlist : e[2] = current_category
    /\ \E e \in wordlist : e[2] # current_category

\* C15: on an empty word store choose_new_word returns false and changes
\* neither the current word, category, point value, running nor the store.
C15_ChooseFromEmptyStore ==
    [][(last'.op = "choose_new_word" /\ wordlist = {})
          => /\ ~last'.chose
             /\ UNCHANGED <<round, store>>]_vars

\* choose_new_word has returned false on an engine with a word in play
C15_Witness ==
    /\ last.op = "choose_new_word"
    /\ ~last.chose
    /\ wordlist = {}
    /\ running
    /\ current_word # <<>>
    /\ current_point_value = 3

\* C16: update_point_value sets point_value to 1 when the store holds more
\* than 20 words, 2 when it holds 11 to 20, 3 when it holds 10 or fewer, and
\* changes nothing else of the Round or the store.
C16_PointValueThresholds ==
    [][(last'.op = "update_point_value")
          => /\ current_point_value' =
                   (LET n == Cardinality(wordlist)
                    IN CASE n >= 21 -> 1
                         [] n >= 11 /\ n <= 20 -> 2
                         [] n <= 10 -> 3)
             /\ UNCHANGED <<store, current_word, current_category, running>>]_vars

\* update_point_value has set the value for a store of exactly 20 words, after
\* choose_new_word took the 21st
C16_Witness ==
    /\ last.op = "update_point_value"
    /\ calls = 2
    /\ Cardinality(wordlist) = 20
    /\ current_point_value = 2
    /\ users = NoUsers

\* C17: end_round pays tokens by score tier: every user holding the highest
\* score gets +3 and, of the three highest distinct scores, every user holding
\* the second gets +2 and every user holding the third gets +1 (scores
\* {A:5, B:5, C:4, D:3} give A +3, B +3, C +2, D +1).
C17_TierPayout ==
    [][(last'.op = "end_round")
          => LET scores == { users[k].score : k \in DOMAIN users } \ {0}
                 tier(k) == Cardinality({ t \in scores : t > users[k].score }) + 1
                 gain(k) == users'[k].tokens - users[k].tokens
             IN \A k \in DOMAIN users :
                   users[k].score > 0 =>
                      /\ tier(k) = 1 => gain(k) = 3
                      /\ (Cardinality(scores) >= 3 /\ tier(k) = 2) => gain(k) = 2
                      /\ (Cardinality(scores) >= 3 /\ tier(k) = 3) => gain(k) = 1]_vars

\* C18: after end_round every user's score is 0, no token balance is lower
\* than before, running is false and the persisted flags are round_end = True
\* and distribute_points = False.
C18_RoundEnded ==
    [][(last'.op = "end_round")
          => /\ DOMAIN users' = DOMAIN users
             /\ \A k \in DOMAIN users : /\ users'[k].score = 0
                                        /\ users'[k].tokens >= users[k].tokens
             /\ ~running'
             /\ meta'["round_end"] = <<"True">>
             /\ meta'["distribute_points"] = <<"False">>]_vars

\* a round has ended with a payout while a user outside the ranking keeps
\* tokens of an earlier round
C18_Witness ==
    /\ last.op = "end_round"
    /\ last.highscores # <<>>
    /\ \E k \in DOMAIN users :
          /\ users[k].tokens > 0
          /\ \A i \in 1..Len(last.highscores) : last.highscores[i][1] # k

\* C19: after end_round on a running engine the engine's current_word and
\* current_category are empty and its point_value is 0, and so are the
\* persisted cur_word, cur_cat and cur_points.
C19_RoundCleared ==
    [][(last'.op = "end_round" /\ running)
          => /\ current_word' = <<>>
             /\ current_category' = ""
             /\ current_point_value' = 0
             /\ meta'["cur_word"] = << <<>> >>
             /\ meta'["cur_cat"] = <<"">>
             /\ meta'["cur_points"] = <<"0">>]_vars

\* C20: end_round while no user has a non-zero score changes no token balance
\* and creates no user; it leaves every score 0, running false, round_end =
\* True and distribute_points = False.
C20_EmptyRanking ==
    [][(last'.op = "end_round" /\ \A k \in DOMAIN users : users[k].score = 0)
          => /\ last'.highscores = <<>>
             /\ DOMAIN users' = DOMAIN users
             /\ \A k \in DOMAIN users : users'[k] = [score |-> 0, tokens |-> users[k].tokens]
             /\ ~running'
             /\ meta'["round_end"] = <<"True">>
             /\ meta'["distribute_points"] = <<"False">>]_vars

\* a round without scores has ended on a store whose users hold tokens
C20_Witness ==
    /\ last.op = "end_round"
    /\ last.highscores = <<>>
    /\ ~running
    /\ \E k \in DOMAIN users : users[k].tokens > 0
    /\ meta["round_end"] = <<"True">>

(***************************************************************************)
(* The console's word batches: up to MaxBatch different words typed by the *)
(* operator, one of them a stored word in another letter case.             *)
(***************************************************************************)
BatchWords == { <<"e", "m", "u">>, <<"C", "a", "t">>, <<"o", "x">> }

BatchCategories == { "animal", "bird" }

Batches ==
    { b \in UNION { [1..n -> BatchWords] : n \in 0..Min(MaxBatch, Cardinality(BatchWords)) } :
        \A i, j \in DOMAIN b : i # j => b[i] # b[j] }

(***************************************************************************)
(* Interface.add_to_wordlist (the console, while the bot is not running):  *)
(* add_words, then round_end = False and update_round = True; on           *)
(* WordExistsException it notifies and returns.  open_tx holds the words   *)
(* and categories as last committed while add_words' transaction is open.  *)
(***************************************************************************)
AddToWordlist ==
    /\ ~constructed
    /\ open_tx = <<>>
    /\ calls < MaxCalls
    /\ \E words \in Batches, category \in BatchCategories :
          LET added == add_words(wordlist, categories, words, category)
          IN /\ wordlist' = added.wordlist
             /\ categories' = added.categories
             /\ open_tx' = IF added.open
                           THEN << [wordlist |-> wordlist, categories |-> categories] >>
                           ELSE <<>>
             /\ meta' = IF added.raised = ""
                        THEN set_meta(set_meta(meta, "round_end", "False"),
                                      "update_round", "True")
                        ELSE meta
             /\ last' = [Call("add_words") EXCEPT !.words = words, !.msg = category,
                                                  !.raised = added.raised]
    /\ calls' = calls + 1
    /\ saved' = <<>>
    /\ stopped' = <<>>
    /\ UNCHANGED <<users, constructed, round, paid, paid_again, wins>>
    /\ UNCHANGED handlers

(***************************************************************************)
(* Interface.__exit__ -> DatabaseManager.teardown: connection.commit() and *)
(* close().  The commit makes durable whatever an open transaction holds.  *)
(* With no transaction open it changes nothing that is modelled.           *)
(***************************************************************************)
DatabaseTeardown ==
    /\ open_tx # <<>>
    /\ open_tx' = <<>>
    /\ last' = Call("database_teardown")
    /\ UNCHANGED <<store, categories, constructed, round, saved, stopped, paid,
                   paid_again, wins, calls>>
    /\ UNCHANGED handlers

\* the console process is killed instead: SQLite rolls the open transaction back
ConnectionLost ==
    /\ open_tx # <<>>
    /\ wordlist' = open_tx[1].wordlist
    /\ categories' = open_tx[1].categories
    /\ open_tx' = <<>>
    /\ last' = Call("connection_lost")
    /\ UNCHANGED <<users, meta, constructed, round, saved, stopped, paid,
                   paid_again, wins, calls>>
    /\ UNCHANGED handlers

(***************************************************************************)
(* The long word list with the console.  The store is as the bot leaves it *)
(* after it started on n + 1 words, put one of them in play (its category *)
(* is removed when no other word has it) and shut down (Game.teardown);    *)
(* then the operator adds words, or the bot is given a word file, and the  *)
(* bot is started once more.                                               *)
(***************************************************************************)
InitResume ==
    /\ wordlist \in { PoolEntries(n) : n \in 0..MaxPool }
    /\ users = NoUsers
    /\ meta = teardown_meta(NoMeta, TRUE, PoolWord(0), PoolCategory(0),
                            update_point_value(wordlist))
    /\ constructed = FALSE
    /\ current_word = <<>>
    /\ current_category = ""
    /\ current_point_value = 0
    /\ running = FALSE
    /\ last = NoCall
    /\ saved = <<>>
    /\ stopped = <<>>
    /\ paid = {}
    /\ paid_again = {}
    /\ wins = [w \in Words |-> 0]
    /\ calls = 0
    /\ categories = { e[2] : e \in wordlist }
    /\ open_tx = <<>>
    /\ handlers = NoHandlers

(***************************************************************************)
(* The store's token operations, called with any amount from -MaxAmount to *)
(* MaxAmount for any name; balances stay within MaxTokens.                 *)
(***************************************************************************)
Amounts == (0 - MaxAmount)..MaxAmount

AddTokens(username, amount) ==
    /\ open_tx = <<>>
    /\ get_tokens(users, username) + amount <= MaxTokens
    /\ users' = add_tokens(users, username, amount)
    /\ last' = [Call("add_tokens") EXCEPT
                    !.user = username, !.amount = amount,
                    !.raised = IF AddTokensRaises(users, username, amount)
                               THEN "UserNotFoundException" ELSE ""]
    /\ UNCHANGED <<wordlist, meta, constructed, round, saved, stopped, paid,
                   paid_again, wins, calls, conn>>
    /\ UNCHANGED handlers

RemoveTokens(username, amount) ==
    /\ open_tx = <<>>
    /\ get_tokens(users, username) - amount <= MaxTokens
    /\ users' = remove_tokens(users, username, amount)
    /\ last' = [Call("remove_tokens") EXCEPT
                    !.user = username, !.amount = amount,
                    !.raised = IF RemoveTokensRaises(users, username, amount)
                               THEN "UserNotFoundException" ELSE ""]
    /\ UNCHANGED <<wordlist, meta, constructed, round, saved, stopped, paid,
                   paid_again, wins, calls, conn>>
    /\ UNCHANGED handlers

SetTokens(username, amount) ==
    /\ open_tx = <<>>
    /\ users' = set_tokens(users, username, amount)
    /\ last' = [Call("set_tokens") EXCEPT
                    !.user = username, !.amount = amount,
                    !.raised = IF SetTokensRaises(users, username, amount)
                               THEN "UserNotFoundException" ELSE ""]
    /\ UNCHANGED <<wordlist, meta, constructed, round, saved, stopped, paid,
                   paid_again, wins, calls, conn>>
    /\ UNCHANGED handlers

(***************************************************************************)
(* A store with users that hold scores and tokens and one word to play;    *)
(* the token operations are called while the engine starts, ends rounds    *)
(* and stops.                                                              *)
(***************************************************************************)
InitTokens ==
    /\ wordlist = { WordPool[1] }
    /\ users \in UNION { [S -> [score : 0..MaxStoreScore, tokens : 0..MaxAmount]] :
                            S \in SUBSET UserKeys }
    /\ meta = NoMeta
    /\ constructed = FALSE
    /\ current_word = <<>>
    /\ current_category = ""
    /\ current_point_value = 0
    /\ running = FALSE
    /\ last = NoCall
    /\ saved = <<>>
    /\ stopped = <<>>
    /\ paid = {}
    /\ paid_again = {}
    /\ wins = [w \in Words |-> 0]
    /\ calls = 0
    /\ categories = { e[2] : e \in wordlist }
    /\ open_tx = <<>>
    /\ handlers = NoHandlers

NextTokens ==
    \/ \E username \in Names, amount \in Amounts : AddTokens(username, amount)
    \/ \E username \in Names, amount \in Amounts : RemoveTokens(username, amount)
    \/ \E username \in Names, amount \in Amounts : SetTokens(username, amount)
    \/ Startup
    \/ EndRound
    \/ Stop

SpecTokens == InitTokens /\ [][NextTokens]_vars

(***************************************************************************)
(* The console on its own: the operator adds batches, wipes the list and   *)
(* leaves.                                                                 *)
(***************************************************************************)
NextConsole ==
    \/ AddToWordlist
    \/ WipeWordlist
    \/ DatabaseTeardown
    \/ ConnectionLost

SpecConsole == Init /\ [][NextConsole]_vars

(***************************************************************************)
(* get_highscores on score tables of up to MaxBoard users.  The query      *)
(* treats all users alike, so the tables are listed with the scores in     *)
(* non-increasing order of the names.                                      *)
(***************************************************************************)
BoardPool == << "u1", "u2", "u3", "u4", "u5", "u6", "u7", "u8", "u9" >>

InitScores ==
    /\ wordlist = {}
    /\ \E n \in 0..MaxBoard :
          /\ users \in [{ BoardPool[i] : i \in 1..n } ->
                           [score : 0..MaxBoardScore, tokens : {0}]]
          /\ \A i, j \in 1..n :
                i < j => users[BoardPool[i]].score >= users[BoardPool[j]].score
    /\ meta = NoMeta
    /\ constructed = FALSE
    /\ current_word = <<>>
    /\ current_category = ""
    /\ current_point_value = 0
    /\ running = FALSE
    /\ last = NoCall
    /\ saved = <<>>
    /\ stopped = <<>>
    /\ paid = {}
    /\ paid_again = {}
    /\ wins = [w \in Words |-> 0]
    /\ calls = 0
    /\ categories = {}
    /\ open_tx = <<>>
    /\ handlers = NoHandlers

\* DatabaseManager.get_highscores, called once on each table
GetHighscores ==
    /\ open_tx = <<>>
    /\ calls = 0
    /\ calls' = 1
    /\ \E hs \in get_highscores(users) :
          last' = [Call("get_highscores") EXCEPT !.highscores = hs]
    /\ UNCHANGED <<store, constructed, round, saved, stopped, paid, paid_again,
                   wins, conn>>
    /\ UNCHANGED handlers

NextScores == GetHighscores

SpecScores == InitScores /\ [][NextScores]_vars

(***************************************************************************)
(* set_wordlist called with any mapping of up to MaxCategories categories  *)
(* and up to MaxBatch words in all, a word possibly twice and in two       *)
(* letter cases, once on each stored list.                                 *)
(***************************************************************************)
MappingWords == { <<"c", "a", "t">>, <<"C", "a", "t">>, <<"e", "m", "u">> }

MappingCategories == { "animal", "Animal", "bird" }

WordLists == UNION { [1..n -> MappingWords] : n \in 0..MaxBatch }

\* the keys of a mapping, in the order of the dict: no key twice
MappingKeys ==
    { cs \in UNION { [1..n -> MappingCategories] :
                       n \in 0..Min(MaxCategories, Cardinality(MappingCategories)) } :
        \A i, j \in DOMAIN cs : i # j => cs[i] # cs[j] }

\* the number of words in the first n lists of ws
RECURSIVE MappingSize(_, _)
MappingSize(ws, n) ==
    IF n = 0 THEN 0 ELSE MappingSize(ws, n - 1) + Len(ws[n])

\* the mappings of at most MaxBatch words
Mappings ==
    UNION { { [i \in DOMAIN cs |-> <<cs[i], ws[i]>>] :
                ws \in { w \in [DOMAIN cs -> WordLists] :
                            MappingSize(w, Len(cs)) <= MaxBatch } } :
            cs \in MappingKeys }

SetWordlist ==
    /\ open_tx = <<>>
    /\ ~constructed
    /\ calls = 0
    /\ calls' = 1
    /\ \E mapping \in Mappings :
          LET replaced == set_wordlist(wordlist, categories, mapping)
          IN /\ wordlist' = replaced.wordlist
             /\ categories' = replaced.categories
             /\ last' = [Call("set_wordlist") EXCEPT !.mapping = mapping,
                                                     !.raised = replaced.raised]
    /\ saved' = <<>>
    /\ stopped' = <<>>
    /\ UNCHANGED <<users, meta, constructed, round, paid, paid_again, wins, open_tx>>
    /\ UNCHANGED handlers

(***************************************************************************)
(* main.wordlist_from_file.  The file is read by configparser: no section  *)
(* at all is InvalidWordlistFile, an option is taken in lower case and an   *)
(* option twice in a section is DuplicateOptionError (the sections of a    *)
(* file are the keys of the mapping here, no section twice).  Then         *)
(* set_wordlist and, when that has not raised, reset_round.                *)
(***************************************************************************)
wordlist_from_file(wl, cats, m, file) ==
    LET unchanged(raised) ==
            [wordlist |-> wl, categories |-> cats, meta |-> m, raised |-> raised]
        mapping == [i \in DOMAIN file |->
                       << file[i][1],
                          [j \in DOMAIN file[i][2] |-> FoldCase(file[i][2][j])] >>]
        replaced == set_wordlist(wl, cats, mapping)
    IN IF Len(file) = 0 THEN unchanged("InvalidWordlistFile")
       ELSE IF \E i \in DOMAIN mapping : \E j, k \in DOMAIN mapping[i][2] :
                  j # k /\ mapping[i][2][j] = mapping[i][2][k]
       THEN unchanged("DuplicateOptionError")
       ELSE IF replaced.raised # "" THEN unchanged(replaced.raised)
       ELSE [wordlist |-> replaced.wordlist, categories |-> replaced.categories,
             meta |-> reset_round(m), raised |-> ""]

\* main() started with --from-wordlist: the first step of a run, before the
\* bot or the console
WordlistFromFile ==
    /\ open_tx = <<>>
    /\ ~constructed
    /\ calls = 0
    /\ calls' = 1
    /\ \E file \in Mappings :
          LET loaded == wordlist_from_file(wordlist, categories, meta, file)
          IN /\ wordlist' = loaded.wordlist
             /\ categories' = loaded.categories
             /\ meta' = loaded.meta
             /\ last' = [Call("wordlist_from_file") EXCEPT !.raised = loaded.raised]
    /\ saved' = <<>>
    /\ stopped' = <<>>
    /\ UNCHANGED <<users, constructed, round, paid, paid_again, wins, open_tx>>
    /\ UNCHANGED handlers

NextWordlist ==
    \/ SetWordlist
    \/ WordlistFromFile

SpecWordlist == Init /\ [][NextWordlist]_vars

NextResume ==
    \/ Startup
    \/ AddToWordlist
    \/ WordlistFromFile
    \/ DatabaseTeardown
    \/ ConnectionLost

SpecResume == InitResume /\ [][NextResume]_vars

(***************************************************************************)
(* The bot over several runs, a run possibly started with --from-wordlist: *)
(* the word file may hold the word that teardown saved.                    *)
(***************************************************************************)
NextRestart ==
    \/ Startup
    \/ \E msg \in Messages : Process(NamePool[1], msg)
    \/ Teardown
    \/ Stop
    \/ WordlistFromFile

SpecRestart == Init /\ [][NextRestart]_vars

(***************************************************************************)
(* DatabaseManager.add_word: the category is looked up by name (COLLATE    *)
(* NOCASE), CategoryNotFoundException when it is not stored; the INSERT's  *)
(* IntegrityError leaves the transaction block, which rolls back, and is   *)
(* turned into WordExistsException.  The meta table is not written.        *)
(***************************************************************************)
add_word(wl, cats, word, category) ==
    LET found == { c \in cats : CategoryNoCase(c) = CategoryNoCase(category) }
    IN IF found = {}
       THEN [wordlist |-> wl, raised |-> "CategoryNotFoundException"]
       ELSE IF \E e \in wl : FoldCase(e[1]) = FoldCase(word)
       THEN [wordlist |-> wl, raised |-> "WordExistsException"]
       ELSE [wordlist |-> wl \cup { <<word, CHOOSE c \in found : TRUE>> },
             raised |-> ""]

AddWord(word, category) ==
    /\ open_tx = <<>>
    /\ ~constructed
    /\ LET added == add_word(wordlist, categories, word, category)
       IN /\ wordlist' = added.wordlist
          /\ last' = [Call("add_word") EXCEPT !.words = <<word>>, !.msg = category,
                                              !.raised = added.raised]
    /\ saved' = <<>>
    /\ stopped' = <<>>
    /\ UNCHANGED <<users, meta, constructed, round, paid, paid_again, wins, calls,
                   conn>>
    /\ UNCHANGED handlers

NextDatabase ==
    \E word \in MappingWords, category \in MappingCategories : AddWord(word, category)

SpecDatabase == Init /\ [][NextDatabase]_vars

(***************************************************************************)
(* migrate_user called with any two names on a store of users with scores  *)
(* and tokens.                                                             *)
(***************************************************************************)
MigrateUser(old_username, new_username) ==
    /\ open_tx = <<>>
    /\ users' = migrate_user(users, old_username, new_username)
    /\ last' = [Call("migrate_user") EXCEPT
                    !.user = old_username, !.msg = new_username,
                    !.raised = IF MigrateUserRaises(users, old_username, new_username)
                               THEN "UserNotFoundException" ELSE ""]
    /\ UNCHANGED <<wordlist, meta, constructed, round, saved, stopped, paid,
                   paid_again, wins, calls, conn>>
    /\ UNCHANGED handlers

NextMigrate == \E old_username, new_username \in Names :
                  MigrateUser(old_username, new_username)

SpecMigrate == InitTokens /\ [][NextMigrate]_vars

\* C21: a startup that finds round_end = True persisted ends with running
\* false, current_word and current_category empty and point_value 0, and
\* removes no word from the store, whatever cur_word, cur_cat, cur_points and
\* update_round hold and whatever words are stored.
C21_StartupEnded ==
    [][(last'.op = "startup" /\ meta["round_end"] = <<"True">>)
          => /\ ~running'
             /\ current_word' = <<>>
             /\ current_category' = ""
             /\ current_point_value' = 0
             /\ wordlist' = wordlist]_vars

\* an engine was constructed on an ended round while words are stored and
\* update_round is True
C21_Witness ==
    /\ last.op = "startup"
    /\ meta["round_end"] = <<"True">>
    /\ meta["update_round"] = <<"True">>
    /\ wordlist # {}
    /\ ~running
    /\ current_word = <<>>

\* C22: a startup that finds round_end = True and distribute_points = True
\* pays the round out of the stored scores (the highest scorers get 3 tokens,
\* nobody loses tokens, every score is reset) and leaves distribute_points =
\* False, so that the next startup pays nothing; a startup that finds
\* distribute_points False or absent changes no user.
C22_StartupPayout ==
    [][(last'.op = "startup")
          => IF meta["round_end"] = <<"True">> /\ meta["distribute_points"] = <<"True">>
             THEN /\ DOMAIN users' = DOMAIN users
                  /\ \A k \in DOMAIN users :
                        /\ users'[k].score = 0
                        /\ users'[k].tokens >= users[k].tokens
                        /\ (users[k].score > 0
                              /\ \A j \in DOMAIN users : users[j].score <= users[k].score)
                             => users'[k].tokens = users[k].tokens + 3
                  /\ meta'["distribute_points"] = <<"False">>
             ELSE users' = users]_vars

\* a startup after wipe_wordlist has paid the scores that were stored
C22_Witness ==
    /\ last.op = "startup"
    /\ categories = {}
    /\ meta["distribute_points"] = <<"False">>
    /\ \E k \in DOMAIN users : users[k].tokens = 3
    /\ \E k \in DOMAIN users : users[k].tokens = 1
    /\ \A k \in DOMAIN users : users[k].score = 0

\* C23: a startup that finds round_end False or absent treats missing flags
\* as False.  With no saved round and words in the store it makes a stored
\* word the current one, removes it, sets point_value by the remaining count
\* and runs; with no saved round and no words the Round stays empty and it
\* does not run; with a saved round it runs.
C23_StartupRound ==
    [][(last'.op = "startup" /\ meta["round_end"] \in { <<>>, <<"False">> })
          => LET saved_round == /\ meta["cur_word"] \notin { <<>>, << <<>> >> }
                                /\ meta["cur_cat"] # <<>>
                                /\ meta["cur_points"] # <<>>
             IN /\ (~saved_round /\ wordlist # {})
                      => /\ \E e \in wordlist :
                               /\ current_word' = e[1]
                               /\ current_category' = e[2]
                               /\ wordlist' = wordlist \ {e}
                         /\ current_point_value' =
                               (LET n == Cardinality(wordlist')
                                IN IF n > 20 THEN 1 ELSE IF n >= 11 THEN 2 ELSE 3)
                         /\ running'
                /\ (~saved_round /\ wordlist = {})
                      => /\ ~running'
                         /\ current_word' = <<>>
                         /\ current_category' = ""
                         /\ current_point_value' = 0
                         /\ wordlist' = wordlist
                /\ saved_round => running'
                /\ users' = users]_vars

\* an engine was constructed on a store without any metadata and chose a word
C23_Witness ==
    /\ last.op = "startup"
    /\ meta = NoMeta
    /\ running
    /\ current_word # <<>>
    /\ wordlist # {}

\* C24: a startup that finds a saved word, category and point value with
\* round_end not True and update_round = True keeps the saved word and
\* category, removes no word, replaces the saved point value by the
\* threshold value of the store's current word count, and runs.
C24_ResumeUpdated ==
    [][(/\ last'.op = "startup"
        /\ meta["round_end"] \in { <<>>, <<"False">> }
        /\ meta["update_round"] = <<"True">>
        /\ meta["cur_word"] \notin { <<>>, << <<>> >> }
        /\ meta["cur_cat"] # <<>>
        /\ meta["cur_points"] # <<>>)
          => /\ current_word' = meta["cur_word"][1]
             /\ current_category' = meta["cur_cat"][1]
             /\ wordlist' = wordlist
             /\ current_point_value' =
                   (LET n == Cardinality(wordlist)
                    IN IF n > 20 THEN 1 ELSE IF n >= 11 THEN 2 ELSE 3)
             /\ running']_vars

\* a round saved at 3 points was resumed at 2 points after the operator took
\* the list from 10 to 11 words
C24_Witness ==
    /\ last.op = "startup"
    /\ running
    /\ meta["update_round"] = <<"True">>
    /\ meta["cur_points"] = <<"3">>
    /\ current_point_value = 2
    /\ current_word = PoolWord(0)
    /\ current_category = PoolCategory(0)
    /\ Cardinality(wordlist) = 11

\* C25: teardown of a running engine persists cur_word, cur_cat and
\* cur_points equal to the engine's word, category and point value and sets
\* round_end, distribute_points and update_round to False; it changes
\* neither the engine's Round, nor the word list, nor any user.
C25_TeardownRunning ==
    [][(last'.op = "teardown" /\ running)
          => /\ meta' = [meta EXCEPT !["cur_word"] = << current_word >>,
                                     !["cur_cat"] = << current_category >>,
                                     !["cur_points"] = << StrInt(current_point_value) >>,
                                     !["round_end"] = <<"False">>,
                                     !["distribute_points"] = <<"False">>,
                                     !["update_round"] = <<"False">>]
             /\ IntStr(meta'["cur_points"][1]) = current_point_value
             /\ UNCHANGED <<round, wordlist, users>>]_vars

\* a running engine with a scored round was torn down over a store whose
\* update_round flag was True
C25_Witness ==
    /\ last.op = "teardown"
    /\ running
    /\ current_word # <<>>
    /\ meta["cur_word"] = << current_word >>
    /\ meta["cur_points"] = <<"3">>
    /\ meta["update_round"] = <<"False">>
    /\ \E k \in DOMAIN users : users[k].score > 0

\* C26: teardown of an engine that is not running persists round_end = True,
\* distribute_points = False and update_round = False and writes none of
\* cur_word, cur_cat, cur_points; a second teardown leaves the metadata
\* exactly as the first left it.
C26_TeardownEnded ==
    [][(last'.op = "teardown" /\ ~running)
          => /\ meta' = [meta EXCEPT !["round_end"] = <<"True">>,
                                     !["distribute_points"] = <<"False">>,
                                     !["update_round"] = <<"False">>]
             /\ teardown_meta(meta', running', current_word', current_category',
                              current_point_value') = meta'
             /\ (last.op = "teardown" => meta' = meta)]_vars

\* an engine that found neither words nor a saved round was torn down: the
\* store still has no cur_word, cur_cat or cur_points row
C26_Witness ==
    /\ last.op = "teardown"
    /\ ~running
    /\ meta["round_end"] = <<"True">>
    /\ meta["distribute_points"] = <<"False">>
    /\ meta["update_round"] = <<"False">>
    /\ meta["cur_word"] = <<>>
    /\ meta["cur_cat"] = <<>>
    /\ meta["cur_points"] = <<>>

\* C27: get_highscores returns (username, score) pairs of stored users in
\* descending score order, only of users with a score above 0, at most 6 of
\* them; a user tied with a returned user is returned too unless the result
\* already has 6 entries; with no score above 0 the result is empty.
C27_Highscores ==
    [][(last'.op = "get_highscores")
          => LET hs == last'.highscores
             IN /\ Len(hs) <= 6
                /\ \A i \in DOMAIN hs :
                      /\ hs[i][1] \in DOMAIN users
                      /\ hs[i][2] = users[hs[i][1]].score
                      /\ hs[i][2] > 0
                /\ \A i, j \in DOMAIN hs :
                      i < j => hs[i][1] # hs[j][1] /\ hs[i][2] >= hs[j][2]
                /\ \A k \in DOMAIN users :
                      (/\ \E i \in DOMAIN hs : hs[i][2] = users[k].score
                       /\ \A i \in DOMAIN hs : hs[i][1] # k)
                        => Len(hs) = 6
                /\ (\A k \in DOMAIN users : users[k].score = 0) => hs = <<>>
                /\ (\E k \in DOMAIN users : users[k].score > 0) => hs # <<>>]_vars

\* seven users are tied at one positive score and six of them were returned
C27_Witness ==
    /\ last.op = "get_highscores"
    /\ Len(last.highscores) = 6
    /\ Cardinality({ k \in DOMAIN users : users[k].score = last.highscores[6][2] }) >= 7

\* C28: add_tokens and remove_tokens raise UserNotFoundException for every
\* username that is not in the store, whatever the amount (positive, zero or
\* negative), and then change no balance.
C28_UnknownUserRaises ==
    [][(last'.op \in {"add_tokens", "remove_tokens"} /\ ~UserExists(users, last'.user))
          => /\ last'.raised = "UserNotFoundException"
             /\ users' = users]_vars

\* C29: no token balance is negative after add_tokens, remove_tokens,
\* set_tokens or end_round, and a decrease by at least the balance leaves
\* exactly 0.
C29_TokensNotNegative ==
    [][(last'.op \in {"add_tokens", "remove_tokens", "set_tokens", "end_round"})
          => /\ \A k \in DOMAIN users' : users'[k].tokens >= 0
             /\ LET decrease == CASE last'.op = "add_tokens" -> 0 - last'.amount
                                  [] last'.op = "remove_tokens" -> last'.amount
                                  [] OTHER -> 0 - 1
                IN (/\ UserExists(users, last'.user)
                    /\ decrease >= 0
                    /\ decrease >= get_tokens(users, last'.user))
                     => get_tokens(users', last'.user) = 0]_vars

\* remove_tokens took MaxAmount tokens from a user who had at most that many
C29_Witness ==
    /\ last.op = "remove_tokens"
    /\ last.amount = MaxAmount
    /\ last.raised = ""
    /\ UserExists(users, last.user)
    /\ get_tokens(users, last.user) = 0
    /\ \E k \in DOMAIN users : users[k].tokens > MaxAmount

\* C30: add_words is all-or-nothing: when a word of the batch already
\* exists, in any letter case, it raises WordExistsException and the store's
\* words and categories are exactly as before.
C30_AddWordsAllOrNothing ==
    [][(/\ last'.op = "add_words"
        /\ \E i \in DOMAIN last'.words : \E e \in wordlist :
              FoldCase(e[1]) = FoldCase(last'.words[i]))
          => /\ last'.raised = "WordExistsException"
             /\ wordlist' = wordlist
             /\ categories' = categories]_vars

\* C31: set_wordlist is all-or-nothing: when it succeeds the store's words
\* and categories are exactly those of the mapping; when the mapping holds
\* the same word twice, compared without letter case, it raises
\* WordExistsException and the stored words and categories are unchanged.
C31_SetWordlistAllOrNothing ==
    [][(last'.op = "set_wordlist")
          => LET m == last'.mapping
                 places == { <<i, a>> \in (DOMAIN m) \X (1..MaxBatch) : a <= Len(m[i][2]) }
                 twice == \E p, q \in places :
                             /\ p # q
                             /\ FoldCase(m[p[1]][2][p[2]]) = FoldCase(m[q[1]][2][q[2]])
             IN /\ last'.raised \in {"", "WordExistsException"}
                /\ last'.raised = ""
                     => /\ wordlist' = { << m[p[1]][2][p[2]], m[p[1]][1] >> : p \in places }
                        /\ categories' = { m[i][1] : i \in DOMAIN m }
                /\ twice => last'.raised = "WordExistsException"
                /\ last'.raised = "WordExistsException"
                     => wordlist' = wordlist /\ categories' = categories
                /\ (~twice /\ \A i, j \in DOMAIN m :
                        i # j => CategoryNoCase(m[i][1]) # CategoryNoCase(m[j][1]))
                     => last'.raised = ""]_vars

\* a mapping with a word in two letter cases under two categories was refused
\* and the stored words are still there
C31_Witness ==
    /\ last.op = "set_wordlist"
    /\ last.raised = "WordExistsException"
    /\ Len(last.mapping) = 2
    /\ last.mapping[1] = << "bird", << <<"C", "a", "t">> >> >>
    /\ last.mapping[2] = << "animal", << <<"c", "a", "t">> >> >>
    /\ Cardinality(wordlist) = MaxWords

\* C32: whenever the engine is running its point value is 1, 2 or 3, after
\* any startup (on a new store or on metadata the engine wrote), process,
\* end_round and teardown.
C32_PointValueRange ==
    running => current_point_value \in {1, 2, 3}

\* an engine resumed a round it had saved when the store held no more words:
\* the point value it runs with is the one read back from cur_points
C32_Witness ==
    /\ last.op = "startup"
    /\ running
    /\ wordlist = {}
    /\ meta["update_round"] = <<"False">>
    /\ meta["cur_word"] = << current_word >>
    /\ meta["cur_points"] = <<"3">>
    /\ current_point_value = 3

\* C33: while one engine plays on a store to which no word is added, a
\* successful process awards the point value the engine held, and that value
\* never decreases from one step to the next: it stays or rises by one, from
\* 1 to 2 to 3.
C33_AwardNeverDecreases ==
    [][/\ (last'.op = "process" /\ last'.ret.success)
            => last'.ret.score = << current_point_value >>
       /\ (constructed /\ constructed' /\ current_point_value > 0)
            => current_point_value' \in { current_point_value, current_point_value + 1 }]_vars

\* a win was awarded 1 point and the next win is worth 2: the store went
\* from 21 to 20 words
C33_Witness ==
    /\ last.op = "process"
    /\ last.ret.success
    /\ last.ret.score = <<1>>
    /\ current_point_value = 2
    /\ Cardinality(wordlist) = 20

\* C34: a round with no word added counts down to its end.  A win of a
\* running engine reports the number of words in the store; while that is
\* above 0 it takes one of them out of the store as the next word, so the
\* win that follows reports one less; the win that reports 0 selects no
\* further word and leaves the store empty.
C34_RoundCountsDown ==
    [][(last'.op = "process" /\ last'.ret.success /\ running)
          => /\ last'.ret.words_remaining = Cardinality(wordlist)
             /\ Cardinality(wordlist) > 0
                  => /\ \E e \in wordlist :
                          /\ current_word' = e[1]
                          /\ wordlist' = wordlist \ {e}
                     /\ Cardinality(wordlist') = last'.ret.words_remaining - 1
             /\ Cardinality(wordlist) = 0
                  => /\ last'.ret.words_remaining = 0
                     /\ UNCHANGED <<wordlist, round>>
             /\ (last.op = "process" /\ last.ret.success /\ last.ret.words_remaining > 0)
                  => last'.ret.words_remaining = last.ret.words_remaining - 1]_vars

\* the second of two wins on a list of two words reported 0: the store is
\* empty and the word just won is still the engine's word
C34_Witness ==
    /\ last.op = "process"
    /\ last.ret.success
    /\ last.ret.words_remaining = 0
    /\ running
    /\ calls = 2
    /\ wordlist = {}
    /\ last.ret.word = << current_word >>
    /\ users[NoCase(NamePool[1])].score = 6

\* C35: no word is played twice: with no word added to the store, a word
\* that was the current word and was guessed never becomes the current word
\* again, whatever process calls, teardowns, stops and restarts follow.
C35_NoWordPlayedTwice ==
    [][\A w \in Words :
          (wins[w] >= 1 /\ current_word # w) => current_word' # w]_vars

\* C36: end_round is idempotent with respect to the payout: an end_round
\* that follows an end_round with nothing in between finds an empty ranking,
\* pays no tokens and leaves every score, every token balance and the
\* metadata as the first left them.
C36_EndRoundTwice ==
    [][(last.op = "end_round" /\ last'.op = "end_round")
          => /\ last'.highscores = <<>>
             /\ users' = users
             /\ meta' = meta
             /\ ~running']_vars

\* end_round found an empty ranking on a table whose users had been paid by
\* an earlier end_round
C36_Witness ==
    /\ last.op = "end_round"
    /\ last.highscores = <<>>
    /\ meta["round_end"] = <<"True">>
    /\ \E k \in DOMAIN users : users[k].tokens = 3
    /\ \E k \in DOMAIN users : users[k].tokens = 2
    /\ \A k \in DOMAIN users : users[k].score = 0

\* C38: migrate_user(old, new) conserves points.  When both names exist the
\* old account is gone afterwards, the new account holds its own score and
\* tokens plus those of the old one, and every other account is unchanged, so
\* the sums of scores and of tokens over all users are as before; when a
\* name is missing it raises UserNotFoundException and changes nothing.
C38_MigrateConserves ==
    [][(last'.op = "migrate_user")
          => LET old == NoCase(last'.user)
                 new == NoCase(last'.msg)
             IN IF old \in DOMAIN users /\ new \in DOMAIN users
                THEN /\ last'.raised = ""
                     /\ old \notin DOMAIN users'
                     /\ new \in DOMAIN users'
                     /\ DOMAIN users' \cup {old} = DOMAIN users
                     /\ users'[new].score = users[new].score + users[old].score
                     /\ users'[new].tokens = users[new].tokens + users[old].tokens
                     /\ \A k \in DOMAIN users' : k # new => users'[k] = users[k]
                ELSE /\ last'.raised = "UserNotFoundException"
                     /\ users' = users]_vars

(***************************************************************************)
(* GuessingGameBot: the message handlers.  event_message is a coroutine;   *)
(* the code between two awaits runs without interruption, and at every     *)
(* await another handler may run.  Each handler h handles one message by a *)
(* viewer; pc is the await the handler is suspended at.                    *)
(***************************************************************************)
Handler(pc, success, words_remaining, ended, raised) ==
    [pc |-> pc, success |-> success, words_remaining |-> words_remaining,
     ended |-> ended, raised |-> raised]

\* GuessingGameBot._end_round up to its await: Game.end_round, then the
\* first and the last entry of the ranking are read
bot_end_round(h) ==
    /\ end_round
    /\ handlers' = [handlers EXCEPT ![h] =
                       Handler("done", @.success, @.words_remaining, TRUE,
                               IF last'.highscores = <<>> THEN "IndexError"
                                                          ELSE "")]
    /\ UNCHANGED calls

\* event_message, from the running test to the await of the first send
HandleMessage(h, username, msg) ==
    /\ constructed
    /\ handlers[h].pc = "idle"
    /\ IF ~running
       THEN /\ handlers' = [handlers EXCEPT ![h] =
                               Handler("done", FALSE, 0, FALSE, "")]
            /\ UNCHANGED <<store, round, constructed, last, saved, stopped,
                           paid, paid_again, wins, conn>>
       ELSE /\ process(username, msg)
            /\ handlers' = [handlers EXCEPT ![h] =
                               IF last'.ret.success
                               THEN Handler("send_guessed", TRUE,
                                            last'.ret.words_remaining, FALSE, "")
                               ELSE Handler("done", FALSE, 0, FALSE, "")]
    /\ UNCHANGED calls

\* event_message, from the first send to the await of the second one
SendGuessed(h) ==
    /\ handlers[h].pc = "send_guessed"
    /\ handlers' = [handlers EXCEPT ![h].pc =
                       IF handlers[h].words_remaining = 0
                       THEN "send_round_over" ELSE "done"]
    /\ UNCHANGED <<store, round, constructed, last, saved, stopped, paid,
                   paid_again, wins, calls, conn>>

\* event_message, from the second send on: await self._end_round(channel)
RoundOver(h) ==
    /\ handlers[h].pc = "send_round_over"
    /\ bot_end_round(h)

\* the !end_round command sent by the broadcaster
CommandEndRound(h) ==
    /\ constructed
    /\ handlers[h].pc = "idle"
    /\ bot_end_round(h)

NextBot ==
    \/ Startup
    \/ \E h \in Handlers, username \in Names, msg \in Messages :
          HandleMessage(h, username, msg)
    \/ \E h \in Handlers : SendGuessed(h)
    \/ \E h \in Handlers : RoundOver(h)
    \/ \E h \in Handlers : CommandEndRound(h)

SpecBot == Init /\ [][NextBot]_vars

\* C37: with message handlers interleaving at their awaits, the last word
\* of a round is credited to one message only and the round is ended once:
\* at most one handler has had a successful process call that reported no
\* words remaining, and at most one handler has ended the round after a win.
C37_LastWordCreditedOnce ==
    /\ Cardinality({ h \in Handlers : /\ handlers[h].success
                                      /\ handlers[h].words_remaining = 0 }) <= 1
    /\ Cardinality({ h \in Handlers : /\ handlers[h].success
                                      /\ handlers[h].ended }) <= 1

\* C39: ending a round through the bot, after the last word or by the
\* !end_round command, completes without raising for every ranking, the
\* empty one included, and leaves the game not running.
C39_BotEndRoundCompletes ==
    [][\A h \in Handlers :
          (handlers'[h].ended /\ ~handlers[h].ended)
             => /\ handlers'[h].raised = ""
                /\ ~running']_vars

====
